---- MODULE Spec2Model ----
(***************************************************************************)
(* sandboxd: the per-request execution pipeline of runHandler.             *)
(*                                                                         *)
(* Two builds of src/main.go are modelled: the console variant (lines      *)
(* 1-410) and the agent variant (lines 716-1184).  A path string is a      *)
(* sequence of characters; a "character" is a one-letter string, or a      *)
(* longer string standing for a run of ordinary letters ("work").          *)
(***************************************************************************)
EXTENDS Integers, Sequences, FiniteSets, TLC

(* ------------------------------ bounds -------------------------------- *)

\* longest file name drawn for the path functions
MaxNameLen == 6

\* requests a client sends in one behaviour of the sequential specification
MaxRequests == 2

\* files in one request
MaxFiles == 2

\* Durations are counted in ticks of an abstract clock.  The code's durations
\* are scaled down, keeping their order: 25 ms < 50 ms < 5 s < 10 s.
\* time.Sleep(25 * time.Millisecond) of waitForSocket
SocketPoll == 1
\* time.Sleep(50 * time.Millisecond) of the console waiters
ConsolePoll == 2
\* the 5 s of waitForGuestInitStarted and of the agent's boot allowance
BootGrace == 3
\* the 10 s of waitForSocket
SocketTimeout == 4
\* the 5000 ms used when timeout_ms is missing or not positive
DefaultTimeout == 3

\* the cleanup budget of the response bound (3 s), in ticks
CleanupBudget == 2

(* ------------------------- strings and paths -------------------------- *)

Separator == "/"

\* the characters file names are drawn from
Chars == {"/", ".", "a"}

RECURSIVE SeqsUpTo(_, _)
SeqsUpTo(S, n) ==
  IF n = 0 THEN {<<>>}
  ELSE LET shorter == SeqsUpTo(S, n - 1)
       IN  shorter \cup {Append(s, c) : s \in {t \in shorter : Len(t) = n - 1}, c \in S}

AllNames == SeqsUpTo(Chars, MaxNameLen)

\* strings.HasPrefix
HasPrefix(s, p) == Len(s) >= Len(p) /\ SubSeq(s, 1, Len(p)) = p

\* strings.Split(s, "/"): the components of s, empty ones included
RECURSIVE Split(_)
Split(s) ==
  IF \A i \in 1..Len(s) : s[i] # Separator THEN <<s>>
  ELSE LET i == CHOOSE k \in 1..Len(s) :
                  s[k] = Separator /\ \A j \in 1..(k - 1) : s[j] # Separator
       IN  <<SubSeq(s, 1, i - 1)>> \o Split(SubSeq(s, i + 1, Len(s)))

\* strings.Join(comps, "/")
RECURSIVE JoinSep(_)
JoinSep(comps) ==
  IF Len(comps) = 0 THEN <<>>
  ELSE IF Len(comps) = 1 THEN comps[1]
  ELSE comps[1] \o <<Separator>> \o JoinSep(Tail(comps))

Dot == <<".">>
DotDot == <<".", ".">>

\* filepath.IsAbs (unix)
IsAbs(name) == Len(name) > 0 /\ name[1] = Separator

\* The component stack of filepath.Clean: "" and "." are dropped, ".." pops
\* the last real component, is dropped at the root, and is kept in front of
\* a relative path.
RECURSIVE CleanStack(_, _, _)
CleanStack(comps, rooted, out) ==
  IF Len(comps) = 0 THEN out
  ELSE LET c == Head(comps)
           rest == Tail(comps)
       IN  IF c = <<>> \/ c = Dot THEN CleanStack(rest, rooted, out)
           ELSE IF c = DotDot
             THEN IF Len(out) > 0 /\ out[Len(out)] # DotDot
                    THEN CleanStack(rest, rooted, SubSeq(out, 1, Len(out) - 1))
                  ELSE IF rooted THEN CleanStack(rest, rooted, out)
                  ELSE CleanStack(rest, rooted, Append(out, DotDot))
           ELSE CleanStack(rest, rooted, Append(out, c))

\* filepath.Clean
Clean(path) ==
  IF path = <<>> THEN Dot
  ELSE LET rooted == IsAbs(path)
           stack == CleanStack(Split(path), rooted, <<>>)
       IN  IF rooted THEN <<Separator>> \o JoinSep(stack)
           ELSE IF stack = <<>> THEN Dot
           ELSE JoinSep(stack)

\* filepath.Join(dir, name) of two non-empty elements
Join(dir, name) == Clean(dir \o <<Separator>> \o name)

\* the components of a cleaned path below its root ("." has none)
CleanComps(p) ==
  LET q == IF IsAbs(p) THEN Tail(p) ELSE p
  IN  IF q = <<>> \/ q = Dot THEN <<>> ELSE Split(q)

RECURSIVE CommonLen(_, _)
CommonLen(a, b) ==
  IF Len(a) = 0 \/ Len(b) = 0 \/ Head(a) # Head(b) THEN 0
  ELSE 1 + CommonLen(Tail(a), Tail(b))

RECURSIVE Repeat(_, _)
Repeat(c, n) == IF n = 0 THEN <<>> ELSE <<c>> \o Repeat(c, n - 1)

\* filepath.Rel(basepath, targpath): [err, rel]
Rel(basepath, targpath) ==
  LET base == Clean(basepath)
      targ == Clean(targpath)
      bc == CleanComps(base)
      tc == CleanComps(targ)
      k == CommonLen(bc, tc)
  IN  IF targ = base THEN [err |-> FALSE, rel |-> Dot]
      ELSE IF IsAbs(base) # IsAbs(targ) THEN [err |-> TRUE, rel |-> <<>>]
      ELSE IF k < Len(bc)
        THEN IF bc[k + 1] = DotDot THEN [err |-> TRUE, rel |-> <<>>]
             ELSE [err |-> FALSE,
                   rel |-> JoinSep(Repeat(DotDot, Len(bc) - k) \o SubSeq(tc, k + 1, Len(tc)))]
      ELSE [err |-> FALSE, rel |-> JoinSep(SubSeq(tc, k + 1, Len(tc)))]

\* the error strings of resolveWorkPath
ErrEmpty == "file name is empty"
ErrAbsolute == "absolute paths are not allowed"
ErrTraversal == "path traversal is not allowed"
ErrEscapes == "path escapes work dir"

\* resolveWorkPath without its test of clean against ".", ".." and "../"
resolveWorkPathNoTraversalTest(dir, name) ==
  IF name = <<>> THEN [err |-> ErrEmpty, path |-> <<>>]
  ELSE IF IsAbs(name) THEN [err |-> ErrAbsolute, path |-> <<>>]
  ELSE LET targetPath == Join(dir, Clean(name))
           r == Rel(dir, targetPath)
       IN  IF r.err \/ r.rel = DotDot \/ HasPrefix(r.rel, DotDot \o <<Separator>>)
             THEN [err |-> ErrEscapes, path |-> <<>>]
           ELSE [err |-> "", path |-> targetPath]

resolveWorkPath(workDir, name) ==
  IF name = <<>> THEN [err |-> ErrEmpty, path |-> <<>>]
  ELSE IF IsAbs(name) THEN [err |-> ErrAbsolute, path |-> <<>>]
  ELSE LET clean == Clean(name)
       IN  IF clean = Dot \/ clean = DotDot \/ HasPrefix(clean, DotDot \o <<Separator>>)
             THEN [err |-> ErrTraversal, path |-> <<>>]
           ELSE LET targetPath == Join(workDir, clean)
                    r == Rel(workDir, targetPath)
                IN  IF r.err \/ r.rel = DotDot \/ HasPrefix(r.rel, DotDot \o <<Separator>>)
                      THEN [err |-> ErrEscapes, path |-> <<>>]
                    ELSE [err |-> "", path |-> targetPath]

(* ------------------------------ requests ------------------------------ *)

Reqs == 1..MaxRequests

\* rootfsPath is mounted at mountDir; "mnt" stands for the name os.MkdirTemp
\* returned, so workDir is the same string in every request.
workDir == <<"/", "mnt", "/", "work">>

\* file names a request of the handler specifications may carry
ReqNames ==
  { <<"a">>, <<"a", "/", ".", ".", "/", "b">>, <<".", ".", "/", "a">>, <<"/", "a">> }

EmptyFn == [x \in {} |-> 0]

Shebang == <<"#", "!">>

\* file contents: a script with the shebang marker, and plain text
ReqContents == { Shebang \o <<"x">>, <<"x">> }

FileMaps ==
  UNION { [D -> ReqContents] : D \in {E \in SUBSET ReqNames : Cardinality(E) <= MaxFiles} }

\* timeout_ms values: missing or zero, and positive (in ticks)
TimeoutChoices == {0, 2}

\* what the client may send: the decoded body is req when jsonOk
Requests ==
  [method : {"POST"}, jsonOk : {TRUE}, Cmd : {"cmd"}, Files : FileMaps,
   TimeoutMs : TimeoutChoices]
    \cup [method : {"GET", "POST"}, jsonOk : BOOLEAN, Cmd : {"", "cmd"},
          Files : {EmptyFn}, TimeoutMs : {0}]
    \cup [method : {"POST"}, jsonOk : {TRUE}, Cmd : {"cmd"}, Files : {EmptyFn},
          TimeoutMs : {-1}]

\* the requests of the sequential client: well-formed, with the default timeout
SeqRequests == {rq \in Requests : rq.method = "POST" /\ rq.jsonOk /\ rq.Cmd # "" /\ rq.TimeoutMs = 0}

NoReq == [method |-> "", jsonOk |-> FALSE, Cmd |-> "", Files |-> EmptyFn, TimeoutMs |-> 0]

\* Stdout is a sequence of console lines, Stderr a sequence of string pieces
NoResp == [status |-> 0, body |-> "", Stdout |-> <<>>, Stderr |-> <<>>, ExitCode |-> 0]

\* http.Error(w, msg, code)
HttpError(code, msg) ==
  [status |-> code, body |-> msg, Stdout |-> <<>>, Stderr |-> <<>>, ExitCode |-> 0]

\* json.NewEncoder(w).Encode(RunResponse{...}) with the default status 200
JsonResponse(stdout, stderr, exitCode) ==
  [status |-> 200, body |-> "", Stdout |-> stdout, Stderr |-> stderr, ExitCode |-> exitCode]

VARIABLES
  variant,   \* which build of main.go runs: "console" or "agent"
  budget,    \* requests the client has still to send
  profile,   \* the client and the environment of this behaviour: "one", "seq", "conc", "clock", "live", "doc"
  req,       \* req[r]: the request r as the client sent it
  h,         \* h[r]: the locals and the position of runHandler for request r
  resp,      \* resp[r]: the response written for r
  nresp,     \* nresp[r]: how many responses were written for r
  fs,        \* the host file system: directories, mounts, files
  image,     \* the content of the rootfs image at rootfsPath
  vm,        \* vm[r]: the firecracker child spawned for r and its guest
  hist,      \* hist[r]: what happened during r (history)
  pName, pOut

pathVars == <<pName, pOut>>

handlerVars == <<variant, budget, profile, req, h, resp, nresp, fs, image, vm, hist>>

vars == <<variant, budget, profile, req, h, resp, nresp, fs, image, vm, hist, pName, pOut>>

NoOut == [err |-> "none", path |-> <<>>]

Idle ==
  [pc |-> "idle", todo |-> {}, defers |-> <<>>, deadline |-> 0, wake |-> 0,
   step |-> 0, timeoutMs |-> 0, timer |-> -1, gpc |-> "none", gDeadline |-> 0, gWake |-> 0,
   stdout |-> <<>>, stderr |-> <<>>, exitCode |-> 0, waitErr |-> "", lnAt |-> "none"]

NoVm == [proc |-> "none", bound |-> FALSE, cfg |-> <<>>, guest |-> "off", console |-> <<>>,
         code |-> 0, conn |-> "none", msg |-> <<>>, wrote |-> FALSE, agentRuns |-> FALSE]

NoHist == [calls |-> <<>>, spawned |-> FALSE, sockSeen |-> FALSE, acquired |-> {},
           writes |-> {}, staged |-> FALSE, sinceInit |-> -1, sinceStart |-> -1,
           accepts |-> 0, decodes |-> 0, decodedAt |-> -1,
           cleanup |-> <<>>, sinceArrival |-> -1, signalAt |-> -1,
           exitAt |-> -1, umountTried |-> FALSE]

FsInit ==
  [tmpDirs |-> {}, rootMounts |-> {}, execDirs |-> {}, agentImgs |-> {}, agentMounts |-> {},
   fcSock |-> 0, consoleAt |-> 0, agentSocks |-> {}]

ImageInit == [files |-> EmptyFn, intact |-> TRUE, hostWrites |-> {}]

HandlerInit ==
  /\ variant \in {"console", "agent"}
  /\ req = [r \in Reqs |-> NoReq]
  /\ h = [r \in Reqs |-> Idle]
  /\ resp = [r \in Reqs |-> NoResp]
  /\ nresp = [r \in Reqs |-> 0]
  /\ fs = FsInit
  /\ image = ImageInit
  /\ vm = [r \in Reqs |-> NoVm]
  /\ hist = [r \in Reqs |-> NoHist]

PathIdle == pName = <<>> /\ pOut = NoOut

\* one request
Init == HandlerInit /\ budget = 1 /\ profile = "one" /\ PathIdle

\* MaxRequests requests, one after the other
InitSeq == HandlerInit /\ budget = MaxRequests /\ profile = "seq" /\ PathIdle

\* one request that meets every failure, for the fair run
InitLive == HandlerInit /\ budget = 1 /\ profile = "live" /\ PathIdle

\* the agent variant with the guest of the guest-agent README, no failures
InitGuest ==
  HandlerInit /\ variant = "agent" /\ budget = 1 /\ profile = "doc" /\ PathIdle

\* one request that meets no failure, its time since arrival counted
InitClock == HandlerInit /\ budget = 1 /\ profile = "clock" /\ PathIdle

\* MaxRequests requests that overlap: net/http serves each in its own goroutine
InitConc == HandlerInit /\ budget = MaxRequests /\ profile = "conc" /\ PathIdle

\* The failures the environment may produce.  With the sequential client only
\* umount fails; overlapping requests meet none; the single request meets
\* every failure.
AllFaults ==
  {"mkdir", "listen", "agentimg", "mount", "write", "umount", "start", "put", "dial", "send"}
Faults ==
  IF profile = "seq" THEN {"umount"}
  ELSE IF profile \in {"conc", "clock", "doc"} THEN {}
  ELSE AllFaults

\* the outcomes of an operation of this kind: success, and failure if it may fail
Outcomes(kind) == IF kind \in Faults THEN BOOLEAN ELSE {TRUE}
OutcomesOf(kind, all, good) == IF kind \in Faults THEN all ELSE {good}

\* the request of the overlapping clients: one plain file
ConcRequests == {rq \in SeqRequests : rq.Files = [n \in {<<"a">>} |-> <<"x">>]}

\* the requests of the timed client: one plain file, either timeout
ClockRequests ==
  {rq \in Requests : rq.method = "POST" /\ rq.jsonOk /\ rq.Cmd # ""
                       /\ rq.Files = [n \in {<<"a">>} |-> <<"x">>]}

\* the requests of the fair run: the same with the default timeout, and one
\* that is not a POST
LiveRequests ==
  {rq \in ClockRequests : rq.TimeoutMs = 0} \cup {rq \in Requests : rq.method = "GET" /\ rq.jsonOk /\ rq.Cmd # ""}

Menu ==
  IF profile = "seq" THEN SeqRequests
  ELSE IF profile \in {"conc", "doc"} THEN ConcRequests
  ELSE IF profile = "clock" THEN ClockRequests
  ELSE IF profile = "live" THEN LiveRequests
  ELSE Requests

InFlight(r) == h[r].pc \notin {"idle", "returned"}

(* ------------------------- writing a response ------------------------- *)

\* a handler that returns without writing
RespondNothing(r, response) == UNCHANGED <<resp, nresp>>

\* the handler writes a response and returns: its deferred calls run next
Respond(r, response) ==
  /\ resp' = [resp EXCEPT ![r] = IF nresp[r] = 0 THEN response ELSE @]
  /\ nresp' = [nresp EXCEPT ![r] = @ + 1]

(* --------------------------- arrival, decode -------------------------- *)

\* A request arrives.  What the model remembers of the requests that have
\* returned (request, response, history, the dead child) is dropped here;
\* the file system and the image stay.  The sequential client sends the next
\* request after the previous one has returned and its goroutine has
\* finished; an overlapping client sends while the request before its own
\* waits for the result of its guest.
PollerRuns(q) == h[q].gpc \in {"start", "loop", "sleep", "accept", "decode"}

Forget(f, blank) ==
  [q \in Reqs |-> IF h[q].pc = "returned" /\ ~PollerRuns(q) THEN blank ELSE f[q]]

Arrive(r) ==
  /\ h[r].pc = "idle"
  /\ budget > 0
  /\ \A q \in Reqs : q < r => h[q].pc # "idle"
  /\ IF profile = "conc"
       THEN IF r = 1 THEN TRUE ELSE h[r - 1].pc \in {"select", "agentselect"}
     ELSE \A q \in Reqs : ~InFlight(q) /\ ~PollerRuns(q)
  /\ \E rq \in Menu : req' = [Forget(req, NoReq) EXCEPT ![r] = rq]
  /\ budget' = budget - 1
  /\ h' = [Forget(h, [Idle EXCEPT !.pc = "returned"]) EXCEPT ![r].pc = "decode"]
  /\ resp' = Forget(resp, NoResp)
  /\ nresp' = Forget(nresp, 0)
  /\ hist' = [Forget(hist, NoHist) EXCEPT ![r].sinceArrival = IF profile = "clock" THEN 0 ELSE -1]
  /\ vm' = Forget(vm, NoVm)
  /\ UNCHANGED <<variant, profile, fs, image, pathVars>>

\* a handler that takes every request as it comes
DecodeUnchecked(r) ==
  /\ h[r].pc = "decode"
  /\ h' = [h EXCEPT ![r].pc = IF variant = "agent" THEN "listen" ELSE "mkdirtemp"]
  /\ UNCHANGED <<variant, budget, profile, req, resp, nresp, fs, image, vm, hist, pathVars>>

\* method check, json decode, cmd check
Decode(r) ==
  /\ h[r].pc = "decode"
  /\ IF req[r].method # "POST"
       THEN /\ Respond(r, HttpError(405, "POST only"))
            /\ h' = [h EXCEPT ![r].pc = "unwind"]
     ELSE IF ~req[r].jsonOk
       THEN /\ Respond(r, HttpError(400, "invalid JSON"))
            /\ h' = [h EXCEPT ![r].pc = "unwind"]
     ELSE IF req[r].Cmd = ""
       THEN /\ Respond(r, HttpError(400, "cmd is required"))
            /\ h' = [h EXCEPT ![r].pc = "unwind"]
     ELSE /\ h' = [h EXCEPT ![r].pc = IF variant = "agent" THEN "listen" ELSE "mkdirtemp"]
          /\ UNCHANGED <<resp, nresp>>
  /\ UNCHANGED <<variant, budget, profile, req, fs, image, vm, hist, pathVars>>


(* ------------------------------ staging ------------------------------- *)

\* deferred calls that run in the order they were registered
DeferFirstInFirstOut(hr, f) == [hr EXCEPT !.defers = <<f>> \o @]

\* defer f(): f is pushed on the handler's stack of deferred calls
Defer(hr, f) == [hr EXCEPT !.defers = Append(@, f)]

\* an umount that leaves the mount in place and reports what it is told to
UmountNothing(f, r, ok) == f

\* exec.Command("umount", mountDir).Run() with outcome ok
Umount(f, r, ok) == [f EXCEPT !.rootMounts = IF ok THEN @ \ {r} ELSE @]

\* an unmount that leaves the agent image mounted
UmountAgentNothing(f, r, ok) == f

\* exec.Command("umount", agentMountPoint).Run() with outcome ok: the socket
\* file inside the image is no longer visible on the host
UmountAgent(f, r, ok) ==
  [f EXCEPT !.agentMounts = IF ok THEN @ \ {r} ELSE @,
            !.agentSocks = IF ok THEN @ \ {<<r, "mount">>} ELSE @]

\* os.RemoveAll(execDir): the image file goes; the directory stays when the
\* agent image is still mounted below it
RemoveExecDir(f, r) ==
  [f EXCEPT !.agentImgs = @ \ {r},
            !.agentSocks = @ \ {<<r, "exec">>},
            !.execDirs = IF r \in f.agentMounts THEN @ ELSE @ \ {r}]

Acquire(hs, what) == [hs EXCEPT !.acquired = @ \cup {what}]

\* unmountErr() was called (history)
Tried(hs) == [hs EXCEPT !.umountTried = TRUE]

\* startUDSListener
StartUDSListener(r) ==
  /\ h[r].pc = "listen"
  /\ \E outcome \in OutcomesOf("listen", {"mkdirErr", "listenErr", "ok"}, "ok") :
       IF outcome = "mkdirErr"
         THEN /\ Respond(r, HttpError(500, "mkdir"))
              /\ h' = [h EXCEPT ![r].pc = "unwind"]
              /\ UNCHANGED <<fs, hist>>
       ELSE IF outcome = "listenErr"
         THEN /\ Respond(r, HttpError(500, "listen"))
              /\ h' = [h EXCEPT ![r].pc = "unwind"]
              /\ fs' = [fs EXCEPT !.execDirs = @ \cup {r}]
              /\ hist' = [hist EXCEPT ![r] = Acquire(@, "execDir")]
       ELSE /\ fs' = [fs EXCEPT !.execDirs = @ \cup {r}, !.agentSocks = @ \cup {<<r, "exec">>}]
            /\ h' = [h EXCEPT ![r] =
                  Defer(Defer([@ EXCEPT !.pc = "agentimg", !.lnAt = "exec"], "lnClose"),
                        "removeExecDir")]
            /\ hist' = [hist EXCEPT ![r] = Acquire(Acquire(@, "execDir"), "listener")]
            /\ UNCHANGED <<resp, nresp>>
  /\ UNCHANGED <<variant, budget, profile, req, image, vm, pathVars>>

\* createAgentDriveImage: dd, mkfs.ext4, MkdirAll, mount
CreateAgentDriveImage(r) ==
  /\ h[r].pc = "agentimg"
  /\ \E outcome \in OutcomesOf("agentimg", {"ddErr", "mkfsErr", "mkdirErr", "mountErr", "ok"}, "ok") :
       /\ fs' = [fs EXCEPT !.agentImgs = IF outcome = "ddErr" THEN @ ELSE @ \cup {r},
                           !.agentMounts = IF outcome = "ok" THEN @ \cup {r} ELSE @]
       /\ hist' = [hist EXCEPT ![r] =
             IF outcome = "ddErr" THEN @
             ELSE IF outcome = "ok" THEN Acquire(Acquire(@, "agentImg"), "agentMount")
             ELSE Acquire(@, "agentImg")]
       /\ IF outcome = "ok"
            THEN /\ h' = [h EXCEPT ![r] = Defer([@ EXCEPT !.pc = "relisten"], "agentCleanup")]
                 /\ UNCHANGED <<resp, nresp>>
          ELSE /\ Respond(r, HttpError(500, outcome))
               /\ h' = [h EXCEPT ![r].pc = "unwind"]
  /\ UNCHANGED <<variant, budget, profile, req, image, vm, pathVars>>

\* ln.Close(); os.Remove(sockPath); net.Listen("unix", agentSockInMount)
Relisten(r) ==
  /\ h[r].pc = "relisten"
  /\ \E ok \in Outcomes("listen") :
       IF ok
         THEN /\ fs' = [fs EXCEPT !.agentSocks = (@ \ {<<r, "exec">>}) \cup {<<r, "mount">>}]
              /\ h' = [h EXCEPT ![r] = Defer([@ EXCEPT !.pc = "mkdirtemp", !.lnAt = "mount"], "lnClose2")]
              /\ UNCHANGED <<resp, nresp>>
       ELSE /\ fs' = [fs EXCEPT !.agentSocks = @ \ {<<r, "exec">>}]
            /\ Respond(r, HttpError(500, "failed to create socket in agent mount"))
            /\ h' = [h EXCEPT ![r].pc = "unwind", ![r].lnAt = "closed"]
  /\ UNCHANGED <<variant, budget, profile, req, image, vm, hist, pathVars>>

\* os.MkdirTemp("", "rootfs-mount-")
MkdirTemp(r) ==
  /\ h[r].pc = "mkdirtemp"
  /\ \E ok \in Outcomes("mkdir") :
       IF ok
         THEN /\ fs' = [fs EXCEPT !.tmpDirs = @ \cup {r}]
              /\ h' = [h EXCEPT ![r] = Defer([@ EXCEPT !.pc = "mount"], "removeMountDir")]
              /\ hist' = [hist EXCEPT ![r] = Acquire(@, "mountDir")]
              /\ UNCHANGED <<resp, nresp>>
       ELSE /\ Respond(r, HttpError(500, "mkdirtemp"))
            /\ h' = [h EXCEPT ![r].pc = "unwind"]
            /\ UNCHANGED <<fs, hist>>
  /\ UNCHANGED <<variant, budget, profile, req, image, vm, pathVars>>

\* mount -o loop rootfsPath mountDir
Mount(r) ==
  /\ h[r].pc = "mount"
  /\ \E ok \in Outcomes("mount") :
       IF ok
         THEN /\ fs' = [fs EXCEPT !.rootMounts = @ \cup {r}]
              /\ h' = [h EXCEPT ![r].pc = "mkwork"]
              /\ hist' = [hist EXCEPT ![r] = Acquire(@, "rootMount")]
              /\ UNCHANGED <<resp, nresp>>
       ELSE /\ Respond(r, HttpError(500, "mount"))
            /\ h' = [h EXCEPT ![r].pc = "unwind"]
            /\ UNCHANGED <<fs, hist>>
  /\ UNCHANGED <<variant, budget, profile, req, image, vm, pathVars>>

\* os.MkdirAll(workDir, 0o755); on failure the unmount is tried and its result dropped
MkWorkDir(r) ==
  /\ h[r].pc = "mkwork"
  /\ \E ok \in Outcomes("mkdir") :
       IF ok
         THEN /\ h' = [h EXCEPT ![r].pc = "files", ![r].todo = DOMAIN req[r].Files]
              /\ UNCHANGED <<resp, nresp, fs, hist>>
       ELSE /\ \E um \in Outcomes("umount") : fs' = Umount(fs, r, um)
            /\ hist' = [hist EXCEPT ![r] = Tried(@)]
            /\ Respond(r, HttpError(500, "mkdir work"))
            /\ h' = [h EXCEPT ![r].pc = "unwind"]
  /\ UNCHANGED <<variant, budget, profile, req, image, vm, pathVars>>

\* filepath.Dir of a cleaned path with at least one separator
Dir(p) ==
  LET c == CleanComps(p)
  IN  <<Separator>> \o JoinSep(SubSeq(c, 1, Len(c) - 1))

\* os.WriteFile(targetPath, content, 0o644): the mode applies to a new file only
WriteFile(img, path, content) ==
  IF HasPrefix(path, <<"/", "mnt", "/">>)
    THEN [img EXCEPT !.files =
            (path :> [content |-> content,
                      mode |-> IF path \in DOMAIN img.files THEN img.files[path].mode ELSE 644])
              @@ @]
  ELSE [img EXCEPT !.hostWrites = @ \cup {path}]

\* os.Chmod(targetPath, 0o755)
Chmod(img, path) ==
  IF path \in DOMAIN img.files
    THEN [img EXCEPT !.files = (path :> [content |-> @[path].content, mode |-> 755]) @@ @]
  ELSE img

\* one turn of the loop over req.Files (a map: the order is not fixed)
FileStep(r) ==
  /\ h[r].pc = "files"
  /\ h[r].todo # {}
  /\ \E name \in h[r].todo :
       LET content == req[r].Files[name]
           res == resolveWorkPath(workDir, name)
       IN  IF res.err # ""
             THEN /\ \E um \in Outcomes("umount") : fs' = Umount(fs, r, um)
                  /\ hist' = [hist EXCEPT ![r] = Tried(@)]
                  /\ Respond(r, HttpError(400, res.err))
                  /\ h' = [h EXCEPT ![r].pc = "unwind"]
                  /\ UNCHANGED image
           ELSE \E outcome \in IF Dir(res.path) # workDir THEN {"writeErr"}
                                ELSE OutcomesOf("write", {"writeErr", "chmodErr", "ok"}, "ok") :
                  /\ outcome = "chmodErr" => HasPrefix(content, Shebang)
                  /\ image' = IF outcome = "writeErr" THEN image
                              ELSE IF HasPrefix(content, Shebang) /\ outcome = "ok"
                                THEN Chmod(WriteFile(image, res.path, content), res.path)
                              ELSE WriteFile(image, res.path, content)
                  /\ hist' = [hist EXCEPT ![r].writes = @ \cup {res.path},
                                           ![r].umountTried = @ \/ outcome # "ok"]
                  /\ IF outcome = "ok"
                       THEN /\ h' = [h EXCEPT ![r].todo = @ \ {name}]
                            /\ UNCHANGED <<resp, nresp, fs>>
                     ELSE /\ \E um \in Outcomes("umount") : fs' = Umount(fs, r, um)
                          /\ Respond(r, HttpError(500, outcome))
                          /\ h' = [h EXCEPT ![r].pc = "unwind"]
  /\ UNCHANGED <<variant, budget, profile, req, vm, pathVars>>

\* the unmount after the loop: its failure ends the request
Unmount(r) ==
  /\ h[r].pc = "files"
  /\ h[r].todo = {}
  /\ \E um \in Outcomes("umount") :
       /\ fs' = Umount(fs, r, um)
       /\ IF um
            THEN /\ h' = [h EXCEPT ![r].pc = IF variant = "agent" THEN "umountagent" ELSE "startfc"]
                 /\ hist' = [hist EXCEPT ![r] = Tried([@ EXCEPT !.staged = TRUE])]
                 /\ UNCHANGED <<resp, nresp>>
          ELSE /\ Respond(r, HttpError(500, "umount"))
               /\ h' = [h EXCEPT ![r].pc = "unwind"]
               /\ hist' = [hist EXCEPT ![r] = Tried(@)]
  /\ UNCHANGED <<variant, budget, profile, req, image, vm, pathVars>>

\* agent variant: the agent image is unmounted before the hypervisor starts
UnmountAgentImage(r) ==
  /\ h[r].pc = "umountagent"
  /\ \E um \in Outcomes("umount") :
       /\ fs' = UmountAgent(fs, r, um)
       /\ IF um
            THEN /\ h' = [h EXCEPT ![r].pc = "startfc"]
                 /\ UNCHANGED <<resp, nresp>>
          ELSE /\ Respond(r, HttpError(500, "failed to unmount agent image"))
               /\ h' = [h EXCEPT ![r].pc = "unwind"]
  /\ UNCHANGED <<variant, budget, profile, req, image, vm, hist, pathVars>>

(* ----------------------------- hypervisor ----------------------------- *)

\* a start that leaves the socket and the console file as it finds them
LeaveAsFound(f, r, outcome) == f

\* the first lines of startFirecracker: os.Remove of the socket and of the
\* console file, then os.Create of the console file (console variant)
RemoveAndCreate(f, r, outcome) ==
  [f EXCEPT !.fcSock = 0,
            !.consoleAt = IF variant # "console" THEN @
                          ELSE IF outcome \in {"startErr", "ok"} THEN r ELSE 0]

\* startFirecracker: the stale socket and console are removed, the console
\* file is created (console variant), the child is started
StartFirecracker(r) ==
  /\ h[r].pc = "startfc"
  /\ \E outcome \in OutcomesOf("start", {"mkdirErr", "createErr", "startErr", "ok"}, "ok") :
       /\ fs' = RemoveAndCreate(fs, r, outcome)
       /\ IF outcome = "ok"
            THEN /\ vm' = [vm EXCEPT ![r].proc = "running"]
                 /\ hist' = [hist EXCEPT ![r].spawned = TRUE]
                 /\ h' = [h EXCEPT ![r] =
                       IF variant = "console"
                         THEN Defer(Defer([@ EXCEPT !.pc = "waitsock", !.deadline = SocketTimeout],
                                          "closeConsole"), "killWait")
                       ELSE Defer([@ EXCEPT !.pc = "waitsock", !.deadline = SocketTimeout], "killWait")]
                 /\ UNCHANGED <<resp, nresp>>
          ELSE /\ Respond(r, HttpError(500, outcome))
               /\ h' = [h EXCEPT ![r].pc = "unwind"]
               /\ UNCHANGED <<vm, hist>>
  /\ UNCHANGED <<variant, budget, profile, req, image, pathVars>>

\* the child binds its control socket at fcSocket; it exits when the path is taken
FcBind(q) ==
  /\ vm[q].proc = "running"
  /\ ~vm[q].bound
  /\ IF fs.fcSock = 0
       THEN /\ fs' = [fs EXCEPT !.fcSock = q]
            /\ vm' = [vm EXCEPT ![q].bound = TRUE]
     ELSE /\ vm' = [vm EXCEPT ![q].proc = "zombie"]
          /\ UNCHANGED fs
  /\ UNCHANGED <<variant, budget, profile, req, h, resp, nresp, image, hist, pathVars>>

\* waitForSocket: the loop test, the stat, the sleep
WaitForSocket(r) ==
  /\ h[r].pc = "waitsock"
  /\ IF h[r].deadline = 0
       THEN /\ Respond(r, HttpError(500, "timeout waiting for socket"))
            /\ h' = [h EXCEPT ![r].pc = "unwind"]
            /\ UNCHANGED hist
     ELSE IF fs.fcSock # 0
       THEN /\ h' = [h EXCEPT ![r].pc = "put", ![r].step = 1, ![r].deadline = 0]
            /\ hist' = [hist EXCEPT ![r].sockSeen = TRUE]
            /\ UNCHANGED <<resp, nresp>>
     ELSE /\ h' = [h EXCEPT ![r].pc = "socksleep", ![r].wake = SocketPoll]
          /\ UNCHANGED <<resp, nresp, hist>>
  /\ UNCHANGED <<variant, budget, profile, req, fs, image, vm, pathVars>>

SocketSleepDone(r) ==
  /\ h[r].pc = "socksleep"
  /\ h[r].wake = 0
  /\ h' = [h EXCEPT ![r].pc = "waitsock"]
  /\ UNCHANGED <<variant, budget, profile, req, resp, nresp, fs, image, vm, hist, pathVars>>

\* the control calls of runHandler, in program order
ControlCalls ==
  IF variant = "agent"
    THEN <<"/machine-config", "/boot-source", "/drives/rootfs", "/drives/agent", "/actions">>
  ELSE <<"/machine-config", "/boot-source", "/drives/rootfs", "/actions">>

\* cmdForGuest of the boot arguments: is "cd /work && " put in front
CdWork(r) == Cardinality(DOMAIN req[r].Files) > 0

\* a handler that always changes to /work
cmdForGuestAlways(r) == <<"cd /work && ", req[r].Cmd>>

\* cmdForGuest, the text put between CMD=" and " in the boot arguments
cmdForGuest(r) == IF CdWork(r) THEN <<"cd /work && ", req[r].Cmd>> ELSE <<req[r].Cmd>>

\* a handler that uses timeout_ms as it was sent
EffectiveTimeoutAsSent(t) == t

\* timeoutMs := req.TimeoutMs; if timeoutMs <= 0 { timeoutMs = 5000 }
EffectiveTimeout(t) == IF t <= 0 THEN DefaultTimeout ELSE t

\* a handler that goes on whatever fcPut returned
PutContinuesAlways(outcome) == TRUE

\* does the handler go on after fcPut returned with this outcome
PutContinues(outcome) == outcome = "204"

\* fcPut: dial fcSocket, PUT, 204 or an error.  The call reaches the child
\* that owns the socket file, if that child runs.
FcPut(r) ==
  /\ h[r].pc = "put"
  /\ LET path == ControlCalls[h[r].step]
         owner == fs.fcSock
         live == owner # 0 /\ vm[owner].proc = "running"
     IN  \E outcome \in {"204", "400", "ioErr"} :
           /\ ~live => outcome = "ioErr"
           /\ live /\ "put" \notin Faults => outcome = "204"
           /\ hist' = [hist EXCEPT ![r].calls =
                         Append(@, [path |-> path, outcome |-> outcome, to |-> owner]),
                                   ![r].sinceStart =
                                     IF variant = "agent" /\ path = "/actions" /\ outcome = "204"
                                       THEN 0 ELSE @]
           /\ vm' = IF outcome = "204"
                      THEN [vm EXCEPT ![owner].cfg =
                                        Append(@, [path |-> path, from |-> r, cd |-> CdWork(r), cmd |-> cmdForGuest(r)]),
                                      ![owner].guest =
                                        IF path = "/actions" /\ @ = "off" THEN "booting" ELSE @]
                    ELSE vm
           /\ IF PutContinues(outcome)
                THEN /\ h' = [h EXCEPT ![r] =
                           IF h[r].step < Len(ControlCalls)
                             THEN [@ EXCEPT !.step = @ + 1]
                           ELSE IF variant = "console"
                             THEN [@ EXCEPT !.pc = "bootwait", !.step = 0,
                                            !.timeoutMs = EffectiveTimeout(req[r].TimeoutMs),
                                            !.deadline = BootGrace]
                           ELSE [@ EXCEPT !.pc = "agentwait", !.step = 0,
                                          !.timeoutMs = EffectiveTimeout(req[r].TimeoutMs)]]
                     /\ UNCHANGED <<resp, nresp>>
              ELSE /\ Respond(r, HttpError(500, "firecracker call failed"))
                   /\ h' = [h EXCEPT ![r].pc = "unwind", ![r].step = 0]
  /\ UNCHANGED <<variant, budget, profile, req, fs, image, pathVars>>

(* --------------------------- guest console ---------------------------- *)

\* A console line is a sequence of tokens.
LineInit == <<"[guest]", " init started">>
LineHalted == <<"reboot", ":", " System halted">>
LinePanic == <<"Kernel panic">>
ExitPrefix == <<"[guest]", " exit code", ":">>

\* exit codes the guest command ends with, and their decimal strings
ExitCodes == {0, 7}
Itoa(n) == IF n = 0 THEN "0" ELSE IF n = 7 THEN "7" ELSE "124"
LineExit(n) == ExitPrefix \o <<" ", Itoa(n)>>

\* lines the command itself may print: plain output, a line that reads like
\* the exit-code marker, and one that has the prefix and a second colon
CmdLines == {<<"hi">>, LineExit(0), ExitPrefix \o <<" ", "7", ":", "x">>}

\* strings.Contains on one line
Contains(line, pat) ==
  \E i \in 0..(Len(line) - Len(pat)) : SubSeq(line, i + 1, i + Len(pat)) = pat

\* strings.Contains(text, pat) for a pattern without a line break
TextContains(text, pat) == \E i \in 1..Len(text) : Contains(text[i], pat)

\* len(strings.Split(line, ":"))
ColonParts(line) == 1 + Cardinality({i \in 1..Len(line) : line[i] = ":"})

\* strconv.Atoi(strings.TrimSpace(parts[1])) with the error dropped
AtoiTrimmed(part) ==
  LET t == SelectSeq(part, LAMBDA x : x # " ")
  IN  IF Len(t) = 1 /\ \E n \in ExitCodes : Itoa(n) = t[1]
        THEN CHOOSE n \in ExitCodes : Itoa(n) = t[1]
      ELSE 0

\* the lines of text that are exit-code markers with exactly two parts
MarkerLines(text) ==
  {i \in 1..Len(text) : HasPrefix(text[i], ExitPrefix) /\ ColonParts(text[i]) = 2}

\* a waiter that takes the last exit-code marker of the text
CompletionLastMarker(text) ==
  IF MarkerLines(text) # {}
    THEN LET i == CHOOSE k \in MarkerLines(text) : \A j \in MarkerLines(text) : k >= j
         IN  [found |-> TRUE,
              code |-> AtoiTrimmed(SubSeq(text[i], Len(ExitPrefix) + 1, Len(text[i])))]
  ELSE IF TextContains(text, LineHalted) THEN [found |-> TRUE, code |-> 0]
  ELSE [found |-> FALSE, code |-> 0]

\* one pass of waitForGuestCompletion over the console text
Completion(text) ==
  IF MarkerLines(text) # {}
    THEN LET i == CHOOSE k \in MarkerLines(text) : \A j \in MarkerLines(text) : k <= j
         IN  [found |-> TRUE,
              code |-> AtoiTrimmed(SubSeq(text[i], Len(ExitPrefix) + 1, Len(text[i])))]
  ELSE IF TextContains(text, LineHalted) THEN [found |-> TRUE, code |-> 0]
  ELSE [found |-> FALSE, code |-> 0]

\* os.ReadFile(fcConsole): the file now at the path, if any
ConsoleReadable == fs.consoleAt # 0
ConsoleText == IF ConsoleReadable THEN vm[fs.consoleAt].console ELSE <<>>

TimeoutStderr == <<"execution timed out">>

\* a handler that starts the completion wait when the boot wait has run out
WaitForGuestInitStartedOrNot(r) ==
  /\ h[r].pc = "bootwait"
  /\ IF h[r].deadline = 0 \/ (ConsoleReadable /\ TextContains(ConsoleText, LineInit))
       THEN h' = [h EXCEPT ![r].pc = "go", ![r].deadline = 0]
     ELSE h' = [h EXCEPT ![r].pc = "bootsleep", ![r].wake = ConsolePoll]
  /\ UNCHANGED <<variant, budget, profile, req, resp, nresp, fs, image, vm, hist, pathVars>>

\* waitForGuestInitStarted: the loop test, one read, the sleep
WaitForGuestInitStarted(r) ==
  /\ h[r].pc = "bootwait"
  /\ IF h[r].deadline = 0
       THEN /\ Respond(r, JsonResponse(<<>>, <<"boot timeout: ", "timeout waiting for guest init started">>, 124))
            /\ h' = [h EXCEPT ![r].pc = "unwind"]
            /\ UNCHANGED hist
     ELSE IF ConsoleReadable /\ TextContains(ConsoleText, LineInit)
       THEN /\ h' = [h EXCEPT ![r].pc = "go", ![r].deadline = 0]
            /\ hist' = [hist EXCEPT ![r].sinceInit = 0]
            /\ UNCHANGED <<resp, nresp>>
     ELSE IF ConsoleReadable
             /\ (TextContains(ConsoleText, LinePanic) \/ TextContains(ConsoleText, LineHalted))
       THEN /\ Respond(r, JsonResponse(<<>>, <<"boot timeout: ", "guest did not reach init started (halt/panic)">>, 124))
            /\ h' = [h EXCEPT ![r].pc = "unwind", ![r].deadline = 0]
            /\ UNCHANGED hist
     ELSE /\ h' = [h EXCEPT ![r].pc = "bootsleep", ![r].wake = ConsolePoll]
          /\ UNCHANGED <<resp, nresp, hist>>
  /\ UNCHANGED <<variant, budget, profile, req, fs, image, vm, pathVars>>

BootSleepDone(r) ==
  /\ h[r].pc = "bootsleep"
  /\ h[r].wake = 0
  /\ h' = [h EXCEPT ![r].pc = "bootwait"]
  /\ UNCHANGED <<variant, budget, profile, req, resp, nresp, fs, image, vm, hist, pathVars>>

\* go func() { stdout, exitCode, waitErr = waitForGuestCompletion(...); close(done) }()
GoPoller(r) ==
  /\ h[r].pc = "go"
  /\ h' = [h EXCEPT ![r].pc = "newtimer", ![r].gpc = "start"]
  /\ UNCHANGED <<variant, budget, profile, req, resp, nresp, fs, image, vm, hist, pathVars>>

\* timer := time.NewTimer(timeoutMs); defer timer.Stop()
NewTimer(r) ==
  /\ h[r].pc = "newtimer"
  /\ h' = [h EXCEPT ![r] = Defer([@ EXCEPT !.pc = "select", !.timer = h[r].timeoutMs], "timerStop")]
  /\ UNCHANGED <<variant, budget, profile, req, resp, nresp, fs, image, vm, hist, pathVars>>

\* waitForGuestCompletion: deadline := time.Now().Add(timeout)
PollerStart(r) ==
  /\ h[r].gpc = "start"
  /\ h' = [h EXCEPT ![r].gpc = "loop", ![r].gDeadline = h[r].timeoutMs]
  /\ UNCHANGED <<variant, budget, profile, req, resp, nresp, fs, image, vm, hist, pathVars>>

\* waitForGuestCompletion: the loop test, one read and parse, the sleep;
\* a return assigns the results and closes done
PollerLoop(r) ==
  /\ h[r].gpc = "loop"
  /\ h' = [h EXCEPT ![r] =
        IF h[r].gDeadline = 0
          THEN [@ EXCEPT !.gpc = "closed", !.stdout = ConsoleText, !.exitCode = 124,
                         !.waitErr = "timeout waiting for guest completion"]
        ELSE IF ConsoleReadable /\ Completion(ConsoleText).found
          THEN [@ EXCEPT !.gpc = "closed", !.stdout = ConsoleText,
                         !.exitCode = Completion(ConsoleText).code, !.waitErr = "",
                         !.gDeadline = 0]
        ELSE [@ EXCEPT !.gpc = "sleep", !.gWake = ConsolePoll]]
  /\ UNCHANGED <<variant, budget, profile, req, resp, nresp, fs, image, vm, hist, pathVars>>

PollerWake(r) ==
  /\ h[r].gpc = "sleep"
  /\ h[r].gWake = 0
  /\ h' = [h EXCEPT ![r].gpc = "loop"]
  /\ UNCHANGED <<variant, budget, profile, req, resp, nresp, fs, image, vm, hist, pathVars>>

\* a handler that leaves its child alone
KillWaitSkipped(v, r) == v

\* fc.Process.Kill(); fc.Wait()
KillWait(v, r) == [v EXCEPT ![r].proc = "reaped"]

\* select, case <-done
SelectDone(r) ==
  /\ h[r].pc = "select"
  /\ h[r].gpc = "closed"
  /\ vm' = KillWait(vm, r)
  /\ Respond(r, JsonResponse(h[r].stdout,
                             IF h[r].waitErr # "" THEN <<h[r].waitErr>> ELSE <<>>,
                             h[r].exitCode))
  /\ h' = [h EXCEPT ![r].pc = "unwind", ![r].timer = -1]
  /\ UNCHANGED <<variant, budget, profile, req, fs, image, hist, pathVars>>

\* select, case <-timer.C
SelectTimer(r) ==
  /\ h[r].pc = "select"
  /\ h[r].timer = 0
  /\ vm' = KillWait(vm, r)
  /\ Respond(r, JsonResponse(<<>>, TimeoutStderr, 124))
  /\ h' = [h EXCEPT ![r].pc = "unwind"]
  /\ UNCHANGED <<variant, budget, profile, req, fs, image, hist, pathVars>>

(* ------------------------- agent result channel ----------------------- *)

\* waitForAgentMessage: the accept goroutine is started, time.After(timeout) is armed
WaitForAgentMessage(r) ==
  /\ h[r].pc = "agentwait"
  /\ h' = [h EXCEPT ![r].pc = "agentselect", ![r].gpc = "accept",
                    ![r].timer = h[r].timeoutMs + BootGrace]
  /\ UNCHANGED <<variant, budget, profile, req, resp, nresp, fs, image, vm, hist, pathVars>>

\* a goroutine whose result never reaches the select
ChSendLost(hr) == hr

\* ch <- result{...}: a handler blocked in the select, its timer not yet
\* fired, receives the result; after the timer has fired nobody receives
ChSend(hr) ==
  IF hr.pc = "agentselect" /\ hr.timer > 0 THEN [hr EXCEPT !.pc = "agentrecv"] ELSE hr

\* conn, err := ln.Accept()
AgentAccept(r) ==
  /\ h[r].gpc = "accept"
  /\ IF h[r].lnAt = "closed"
       THEN /\ h' = [h EXCEPT ![r] = ChSend([@ EXCEPT !.gpc = "closed", !.waitErr = "accept"])]
            /\ UNCHANGED vm
     ELSE /\ vm[r].conn = "dialed"
          /\ vm' = [vm EXCEPT ![r].conn = "accepted"]
          /\ h' = [h EXCEPT ![r].gpc = "decode"]
  /\ hist' = [hist EXCEPT ![r].accepts = @ + 1]
  /\ UNCHANGED <<variant, budget, profile, req, resp, nresp, fs, image, pathVars>>

\* a Decode that never learns that its peer is gone
AgentDecodeNoEOF(r) ==
  /\ h[r].gpc = "decode"
  /\ vm[r].msg # <<>>
  /\ h' = [h EXCEPT ![r] = ChSend(
        IF vm[r].msg[1].ok
          THEN [@ EXCEPT !.gpc = "closed", !.stdout = vm[r].msg[1].Stdout,
                         !.stderr = vm[r].msg[1].Stderr, !.exitCode = vm[r].msg[1].ExitCode]
        ELSE [@ EXCEPT !.gpc = "closed", !.waitErr = "decode"])]
  /\ hist' = [hist EXCEPT ![r].decodes = @ + 1,
                          ![r].decodedAt = IF vm[r].msg[1].ok THEN hist[r].sinceStart ELSE @]
  /\ UNCHANGED <<variant, budget, profile, req, resp, nresp, fs, image, vm, pathVars>>

\* dec.Decode(&resp); ch <- result{...}.  The read returns with what the
\* agent sent, or with io.EOF once the peer is gone: the connection ends
\* in the guest, which ends with the hypervisor process
AgentDecode(r) ==
  /\ h[r].gpc = "decode"
  /\ IF vm[r].msg # <<>>
       THEN /\ h' = [h EXCEPT ![r] = ChSend(
                  IF vm[r].msg[1].ok
                    THEN [@ EXCEPT !.gpc = "closed", !.stdout = vm[r].msg[1].Stdout,
                                   !.stderr = vm[r].msg[1].Stderr,
                                   !.exitCode = vm[r].msg[1].ExitCode]
                  ELSE [@ EXCEPT !.gpc = "closed", !.waitErr = "decode"])]
            /\ hist' = [hist EXCEPT ![r].decodes = @ + 1,
                                    ![r].decodedAt = IF vm[r].msg[1].ok THEN hist[r].sinceStart
                                                     ELSE @]
     ELSE /\ vm[r].proc # "running"
          /\ h' = [h EXCEPT ![r] = ChSend([@ EXCEPT !.gpc = "closed", !.waitErr = "decode"])]
          /\ hist' = [hist EXCEPT ![r].decodes = @ + 1]
  /\ UNCHANGED <<variant, budget, profile, req, resp, nresp, fs, image, vm, pathVars>>

\* select, case r := <-ch, and the handler's answer to it
AgentSelectMsg(r) ==
  /\ h[r].pc = "agentrecv"
  /\ Respond(r, IF h[r].waitErr # ""
                  THEN JsonResponse(<<>>, TimeoutStderr, 124)
                ELSE JsonResponse(h[r].stdout, h[r].stderr, h[r].exitCode))
  /\ h' = [h EXCEPT ![r].pc = "unwind", ![r].timer = -1]
  /\ UNCHANGED <<variant, budget, profile, req, fs, image, vm, hist, pathVars>>

\* select, case <-time.After(timeout), and the handler's answer to it
AgentSelectTimeout(r) ==
  /\ h[r].pc = "agentselect"
  /\ h[r].timer = 0
  /\ Respond(r, JsonResponse(<<>>, TimeoutStderr, 124))
  /\ h' = [h EXCEPT ![r].pc = "unwind", ![r].timer = -1]
  /\ UNCHANGED <<variant, budget, profile, req, fs, image, vm, hist, pathVars>>

(* ------------------------------ the guest ----------------------------- *)

\* the child's stdout is the console file it was started with (console variant)
ConsoleWrite(v, q, line) ==
  IF variant = "console" THEN [v EXCEPT ![q].console = Append(@, line)] ELSE v

\* the first completion signal, stamped with the time since init was observed
Stamp(hs, exit) ==
  LET t == IF hs.sinceInit < 0 THEN 0 ELSE hs.sinceInit
  IN  [hs EXCEPT !.signalAt = IF @ < 0 THEN t ELSE @,
                 !.exitAt = IF exit /\ @ < 0 THEN t ELSE @]

GuestInitStarted(q) ==
  /\ vm[q].proc = "running"
  /\ vm[q].guest = "booting"
  /\ vm' = ConsoleWrite([vm EXCEPT ![q].guest = "init"], q, LineInit)
  /\ UNCHANGED <<variant, budget, profile, req, h, resp, nresp, fs, image, hist, pathVars>>

\* the kernel panics: while booting, or when init dies
GuestPanic(q) ==
  /\ vm[q].proc = "running"
  /\ vm[q].guest \in {"booting", "init"}
  /\ vm' = ConsoleWrite([vm EXCEPT ![q].guest = "panic"], q, LinePanic)
  /\ UNCHANGED <<variant, budget, profile, req, h, resp, nresp, fs, image, hist, pathVars>>

\* the command prints a line: its output goes to the console
GuestOutput(q) ==
  /\ variant = "console"
  /\ vm[q].proc = "running"
  /\ vm[q].guest = "init"
  /\ ~vm[q].wrote
  /\ \E line \in CmdLines :
       vm' = ConsoleWrite([vm EXCEPT ![q].wrote = TRUE], q, line)
  /\ UNCHANGED <<variant, budget, profile, req, h, resp, nresp, fs, image, hist, pathVars>>

\* the command ends with code n; init prints the exit-code marker
GuestExit(q) ==
  /\ vm[q].proc = "running"
  /\ vm[q].guest = "init"
  /\ \E n \in ExitCodes :
       vm' = ConsoleWrite([vm EXCEPT ![q].guest = "exited", ![q].code = n,
                                      ![q].agentRuns = TRUE], q, LineExit(n))
  /\ hist' = [hist EXCEPT ![q] = IF variant = "console" THEN Stamp(@, TRUE) ELSE @]
  /\ UNCHANGED <<variant, budget, profile, req, h, resp, nresp, fs, image, pathVars>>

GuestHalt(q) ==
  /\ vm[q].proc = "running"
  /\ vm[q].guest \in {"init", "exited"}
  /\ vm' = ConsoleWrite([vm EXCEPT ![q].guest = "halted"], q, LineHalted)
  /\ hist' = [hist EXCEPT ![q] = IF variant = "console" THEN Stamp(@, FALSE) ELSE @]
  /\ UNCHANGED <<variant, budget, profile, req, h, resp, nresp, fs, image, pathVars>>

\* the hypervisor process ends when its guest has halted or panicked
FcExit(q) ==
  /\ vm[q].proc = "running"
  /\ vm[q].guest \in {"halted", "panic"}
  /\ vm' = [vm EXCEPT ![q].proc = "zombie"]
  /\ UNCHANGED <<variant, budget, profile, req, h, resp, nresp, fs, image, hist, pathVars>>

\* guest agent: net.Dial("unix", socket); os.Exit(1) on error
AgentDial(q) ==
  /\ variant = "agent"
  /\ vm[q].proc = "running"
  /\ vm[q].guest = "exited"
  /\ vm[q].agentRuns
  /\ vm[q].conn = "none"
  /\ \E ok \in Outcomes("dial") :
       vm' = [vm EXCEPT ![q].conn = IF ok /\ h[q].lnAt = "mount" THEN "dialed" ELSE "failed"]
  /\ UNCHANGED <<variant, budget, profile, req, h, resp, nresp, fs, image, hist, pathVars>>

\* guest agent: json.NewEncoder(conn).Encode(Payload{...}); the bytes may be cut short
AgentSend(q) ==
  /\ vm[q].proc = "running"
  /\ vm[q].conn \in {"dialed", "accepted"}
  /\ vm[q].msg = <<>>
  /\ \E whole \in Outcomes("send") :
       vm' = [vm EXCEPT ![q].msg =
                <<[ok |-> whole, Stdout |-> <<<<"out">>>>, Stderr |-> <<"err">>,
                   ExitCode |-> vm[q].code]>>]
  /\ UNCHANGED <<variant, budget, profile, req, h, resp, nresp, fs, image, hist, pathVars>>

\* The init script of the guest-agent README, under "set -e":
\*   sh -c "$CMD" > /tmp/stdout 2> /tmp/stderr ; echo $? > /tmp/exitcode
\* A command that ends with n # 0 ends the script there: nothing is recorded,
\* the agent is not run, and the kernel panics because init has exited.
InitScript(q) ==
  /\ variant = "agent"
  /\ vm[q].proc = "running"
  /\ vm[q].guest = "init"
  /\ \E n \in ExitCodes :
       vm' = [vm EXCEPT ![q].code = n,
                        ![q].agentRuns = (n = 0),
                        ![q].guest = IF n = 0 THEN "exited" ELSE "panic"]
  /\ UNCHANGED <<variant, budget, profile, req, h, resp, nresp, fs, image, hist, pathVars>>

\* the rest of the script: /usr/bin/guest-agent has ended; poweroff -f when it
\* ended with 0, and the end of init when it could not dial (os.Exit(1))
InitAfterAgent(q) ==
  /\ vm[q].proc = "running"
  /\ vm[q].guest = "exited"
  /\ vm[q].agentRuns
  /\ vm[q].msg # <<>> \/ vm[q].conn = "failed"
  /\ vm' = [vm EXCEPT ![q].guest = IF vm[q].msg # <<>> THEN "halted" ELSE "panic"]
  /\ UNCHANGED <<variant, budget, profile, req, h, resp, nresp, fs, image, hist, pathVars>>

(* --------------------------- deferred calls --------------------------- *)

\* os.RemoveAll(mountDir): a directory the rootfs is still mounted on cannot
\* be removed, and what is below it (the content of the image) is deleted
RemoveMountDir(f, r) == [f EXCEPT !.tmpDirs = IF r \in f.rootMounts THEN @ ELSE @ \ {r}]

RemoveAllImage(img, f, r) ==
  IF r \in f.rootMounts THEN [img EXCEPT !.files = EmptyFn, !.intact = FALSE] ELSE img

\* the locals of a handler that returned are gone; its goroutine may still run
Returned(hr) ==
  [Idle EXCEPT !.pc = "returned", !.gpc = hr.gpc, !.gDeadline = hr.gDeadline,
               !.gWake = hr.gWake,
               !.timeoutMs = IF hr.gpc = "start" THEN hr.timeoutMs ELSE 0,
               !.lnAt = IF hr.gpc = "accept" THEN hr.lnAt ELSE "none"]

\* the handler returns: its deferred calls run last-in first-out, then it is gone
RunDefer(r) ==
  /\ h[r].pc = "unwind"
  /\ IF h[r].defers = <<>>
       THEN /\ h' = [h EXCEPT ![r] = Returned(@)]
            /\ UNCHANGED <<fs, image, vm, hist>>
     ELSE LET d == h[r].defers[Len(h[r].defers)]
              rest == SubSeq(h[r].defers, 1, Len(h[r].defers) - 1)
          IN  /\ \E um \in BOOLEAN :
                   /\ (um = FALSE \/ (d = "agentCleanup" /\ r \in fs.agentMounts))
                   /\ fs' = CASE d = "removeMountDir" -> RemoveMountDir(fs, r)
                              [] d = "removeExecDir" -> RemoveExecDir(fs, r)
                              [] d = "agentCleanup" -> RemoveExecDir(UmountAgent(fs, r, um), r)
                              [] d = "lnClose" -> [fs EXCEPT !.agentSocks = @ \ {<<r, "exec">>}]
                              [] d = "lnClose2" -> [fs EXCEPT !.agentSocks = @ \ {<<r, "mount">>}]
                              [] OTHER -> fs
              /\ image' = IF d = "removeMountDir" THEN RemoveAllImage(image, fs, r) ELSE image
              /\ vm' = IF d = "killWait" THEN KillWait(vm, r) ELSE vm
              /\ hist' = [hist EXCEPT ![r].cleanup = Append(@, d)]
              /\ h' = [h EXCEPT ![r].defers = rest,
                                ![r].timer = IF d = "timerStop" THEN -1 ELSE @,
                                ![r].lnAt = IF d \in {"lnClose", "lnClose2"} /\ @ # "none"
                                              THEN "closed" ELSE @]
  /\ UNCHANGED <<variant, budget, profile, req, resp, nresp, pathVars>>

(* -------------------------------- time -------------------------------- *)

\* the longest duration of the model
Longest == SocketTimeout + BootGrace + DefaultTimeout

\* a clock that never runs a countdown out
DecNever(n, k) == n

\* a countdown of n after k ticks; negative means not armed
Dec(n, k) == IF n > k THEN n - k ELSE IF n > 0 THEN 0 ELSE n

Counting(hr) ==
  hr.deadline > 0 \/ hr.wake > 0 \/ hr.timer > 0 \/ hr.gDeadline > 0 \/ hr.gWake > 0

\* the handler and its goroutine are blocked: in a sleep, in a select with no
\* case ready, in Accept or Decode, or not running
Waiting(hr) ==
  /\ \/ hr.pc \in {"idle", "returned"}
     \/ hr.pc \in {"socksleep", "bootsleep"} /\ hr.wake > 0
     \/ hr.pc = "select" /\ hr.timer > 0 /\ hr.gpc # "closed"
     \/ hr.pc = "agentselect" /\ hr.timer > 0
  /\ \/ hr.gpc \in {"none", "closed", "accept", "decode"}
     \/ hr.gpc = "sleep" /\ hr.gWake > 0

\* k ticks of the clock pass: every running countdown loses k; on the timed
\* client's clock the program's own steps take no time
Elapse(k) ==
  /\ \E r \in Reqs : Counting(h[r])
  /\ profile = "clock" => \A r \in Reqs : Waiting(h[r])
  /\ h' = [r \in Reqs |->
             [h[r] EXCEPT !.deadline = Dec(@, k), !.wake = Dec(@, k), !.timer = Dec(@, k),
                          !.gDeadline = Dec(@, k), !.gWake = Dec(@, k)]]
  /\ hist' = [r \in Reqs |->
                [hist[r] EXCEPT !.sinceInit =
                   IF @ < 0 \/ h[r].pc = "returned" THEN @
                   ELSE IF @ + k <= h[r].timeoutMs THEN @ + k ELSE h[r].timeoutMs + 1,
                                !.sinceStart =
                   IF @ < 0 \/ h[r].pc = "returned" THEN @
                   ELSE IF @ + k <= h[r].timeoutMs + BootGrace THEN @ + k
                   ELSE h[r].timeoutMs + BootGrace + 1,
                                !.sinceArrival =
                   IF @ < 0 \/ h[r].pc = "returned" THEN @
                   ELSE IF @ + k <= Longest THEN @ + k ELSE Longest + 1]]
  /\ UNCHANGED <<variant, budget, profile, req, resp, nresp, fs, image, vm, pathVars>>

Tick == Elapse(1)

\* a long time passes with no other step: every countdown runs out
Leap == Elapse(Longest)

(* ------------------------------- system ------------------------------- *)

Handler(r) ==
  \/ Arrive(r) \/ Decode(r)
  \/ StartUDSListener(r) \/ CreateAgentDriveImage(r) \/ Relisten(r)
  \/ MkdirTemp(r) \/ Mount(r) \/ MkWorkDir(r) \/ FileStep(r) \/ Unmount(r)
  \/ UnmountAgentImage(r)
  \/ StartFirecracker(r) \/ WaitForSocket(r) \/ SocketSleepDone(r) \/ FcPut(r)
  \/ WaitForGuestInitStarted(r) \/ BootSleepDone(r)
  \/ GoPoller(r) \/ NewTimer(r) \/ PollerStart(r) \/ PollerLoop(r) \/ PollerWake(r)
  \/ SelectDone(r) \/ SelectTimer(r)
  \/ WaitForAgentMessage(r) \/ AgentAccept(r) \/ AgentDecode(r)
  \/ AgentSelectMsg(r) \/ AgentSelectTimeout(r)
  \/ RunDefer(r)

Environment(q) ==
  \/ FcBind(q) \/ GuestInitStarted(q) \/ GuestPanic(q) \/ GuestOutput(q) \/ GuestExit(q)
  \/ GuestHalt(q)
  \/ FcExit(q) \/ AgentDial(q) \/ AgentSend(q)

Next == (\E r \in Reqs : Handler(r) \/ Environment(r)) \/ Tick

Spec == Init /\ [][Next]_vars

NextSeq == (\E r \in Reqs : Handler(r) \/ Environment(r)) \/ Leap

\* MaxRequests requests one after the other; time passes in leaps
SpecSeq == InitSeq /\ [][NextSeq]_vars

\* the steps of runHandler in the agent variant
AgentHandler(r) ==
  \/ Arrive(r) \/ Decode(r)
  \/ StartUDSListener(r) \/ CreateAgentDriveImage(r) \/ Relisten(r)
  \/ MkdirTemp(r) \/ Mount(r) \/ MkWorkDir(r) \/ FileStep(r) \/ Unmount(r)
  \/ UnmountAgentImage(r)
  \/ StartFirecracker(r) \/ WaitForSocket(r) \/ SocketSleepDone(r) \/ FcPut(r)
  \/ WaitForAgentMessage(r) \/ AgentAccept(r) \/ AgentDecode(r)
  \/ AgentSelectMsg(r) \/ AgentSelectTimeout(r)
  \/ RunDefer(r)

\* firecracker and the guest that the guest-agent README documents
DocGuest(q) ==
  \/ FcBind(q) \/ GuestInitStarted(q) \/ InitScript(q) \/ AgentDial(q) \/ AgentSend(q)
  \/ InitAfterAgent(q) \/ FcExit(q)

NextGuest == (\E r \in Reqs : AgentHandler(r) \/ DocGuest(r)) \/ Tick

\* the agent variant against the documented guest
SpecGuest == InitGuest /\ [][NextGuest]_vars

\* the handler of r or its goroutine can take a step
Ready(r) == InFlight(r) /\ ~Waiting(h[r])

\* the single request under a fair scheduler: time passes while a countdown
\* runs, and a handler that stays ready takes a step (weak fairness of
\* Handler(r), its enabling condition written out); the guest and the
\* hypervisor owe nothing
SpecLive ==
  /\ InitLive /\ [][Next]_vars
  /\ WF_vars(Tick)
  /\ \A r \in Reqs : []<>(~Ready(r)) \/ []<><<Handler(r)>>_vars

\* the goroutine of request r: the completion poller, the accept and decode
Goroutine(r) ==
  PollerStart(r) \/ PollerLoop(r) \/ PollerWake(r) \/ AgentAccept(r) \/ AgentDecode(r)

\* SpecLive with a scheduler that is fair to the goroutines as well, also
\* after the handler has returned
SpecLiveGo ==
  /\ SpecLive
  /\ \A r \in Reqs : WF_vars(Goroutine(r))

\* one request without failures, on a clock that counts from its arrival
SpecClock == InitClock /\ [][Next]_vars

\* the guests of the overlapping requests: the command prints nothing and
\* the kernel does not panic
QuietGuest(q) ==
  \/ FcBind(q) \/ GuestInitStarted(q) \/ GuestExit(q) \/ GuestHalt(q)
  \/ FcExit(q) \/ AgentDial(q) \/ AgentSend(q)

NextConc == (\E r \in Reqs : Handler(r) \/ QuietGuest(r)) \/ Leap

\* MaxRequests overlapping requests; time passes in leaps
SpecConc == InitConc /\ [][NextConc]_vars

PathInit == HandlerInit /\ budget = 0 /\ profile = "one" /\ pName \in AllNames /\ pOut = NoOut

PathStep ==
  /\ pOut = NoOut
  /\ pOut' = resolveWorkPath(workDir, pName)
  /\ UNCHANGED <<pName, handlerVars>>

SpecPath == PathInit /\ [][PathStep]_vars

(* ------------------------------- claims ------------------------------- *)

\* C1 (R1 cleanup): once runHandler has returned, whatever the exit path and
\* in both variants, the request has no rootfs mount left on the host, its
\* temporary mount directory is gone, its per-execution directory, agent
\* image and agent mount are gone, and its child is killed and reaped.
C1_CleanupOnReturn ==
  \A r \in Reqs :
    h[r].pc = "returned" =>
      /\ r \notin fs.rootMounts
      /\ r \notin fs.tmpDirs
      /\ r \notin fs.execDirs
      /\ r \notin fs.agentImgs
      /\ r \notin fs.agentMounts
      /\ vm[r].proc \in {"none", "reaped"}

\* the completion wait of request r ended with no completion signal on the
\* console within timeout_ms of the moment init-started was observed
NoSignalInTime(r) ==
  /\ variant = "console"
  /\ nresp[r] > 0
  /\ hist[r].sinceInit >= 0
  /\ hist[r].signalAt < 0 \/ hist[r].signalAt > EffectiveTimeout(req[r].TimeoutMs)

\* C2 (R3 timeout sentinel): in the console variant, when no completion
\* signal appears within timeout_ms after init-started was observed, the
\* response is 200 with stdout "", stderr "execution timed out" and
\* exit_code 124, whichever of the poller and the timer gets there first.
C2_TimeoutSentinel ==
  \A r \in Reqs : NoSignalInTime(r) => resp[r] = JsonResponse(<<>>, TimeoutStderr, 124)

\* init printed its exit-code marker no later than timeout_ms after the
\* handler of request r observed init-started, and r was answered
ExitInTime(r) ==
  /\ variant = "console"
  /\ nresp[r] > 0
  /\ hist[r].sinceInit >= 0
  /\ hist[r].exitAt >= 0
  /\ hist[r].exitAt <= EffectiveTimeout(req[r].TimeoutMs)

\* C3 (R2 exit-code fidelity): in the console variant, when the guest
\* writes "[guest] exit code: n" no later than timeout_ms after init-started
\* was observed, the response is 200 with exit_code n, wherever the poll
\* ticks fall and however the poller and the timer are ordered.
C3_ExitCodeFidelity ==
  \A r \in Reqs : ExitInTime(r) => resp[r].status = 200 /\ resp[r].ExitCode = vm[r].code

\* the rootfs image is the root drive of the hypervisor of request q
RootfsAttached(q) ==
  /\ vm[q].proc = "running"
  /\ \E i \in 1..Len(vm[q].cfg) : vm[q].cfg[i].path = "/drives/rootfs"

\* C4: in every reachable state, also after a failed or ignored unmount and
\* over several requests, the rootfs image is never at once loop-mounted on
\* the host and the root drive of a running or configured hypervisor.
C4_NeverMountedAndAttached ==
  ~(fs.rootMounts # {} /\ \E q \in Reqs : RootfsAttached(q))

\* the paths of the image that the files of request r are staged at
StagedPaths(r) ==
  {resolveWorkPath(workDir, name).path : name \in DOMAIN req[r].Files}

\* C5 (staging contract over sequences): after stage B of a request, whatever
\* requests came before it, the files in /work of the image are exactly the
\* keys of its files (nothing an earlier request staged remains) and nothing
\* else in the image or on the host has changed.
C5_WorkHoldsExactlyTheFiles ==
  \A r \in Reqs :
    (InFlight(r) /\ hist[r].staged) =>
      /\ DOMAIN image.files = StagedPaths(r)
      /\ image.intact
      /\ image.hostWrites = {}

\* p is, after lexical cleaning, strictly below dir
StrictlyBelow(p, dir) ==
  /\ HasPrefix(Clean(p), dir \o <<Separator>>)
  /\ Len(Clean(p)) > Len(dir) + 1
  /\ \A i \in 1..Len(CleanComps(p)) : CleanComps(p)[i] # DotDot

\* C6 (path confinement): every path resolveWorkPath hands to os.WriteFile
\* and os.Chmod is, after lexical cleaning, a strict descendant of the work
\* directory: not the work directory itself, not a path outside it, for
\* every file name.
C6_PathConfinement ==
  (pOut # NoOut /\ pOut.err = "") => StrictlyBelow(pOut.path, workDir)

\* C6 witness: a name with a ".." component was resolved to a path to write
C6_Witness ==
  /\ pOut # NoOut
  /\ pOut.err = ""
  /\ \E i \in 1..Len(Split(pName)) : Split(pName)[i] = DotDot

\* a key of files that R5 rejects: absolute, with a ".." component, or
\* leading out of the work directory
UnsafeName(name) ==
  \/ IsAbs(name)
  \/ \E i \in 1..Len(Split(name)) : Split(name)[i] = DotDot
  \/ ~HasPrefix(Join(workDir, name) \o <<Separator>>, workDir \o <<Separator>>)

\* C7 (R5 path safety): a request with at least one key of files that is
\* absolute, has a ".." component or escapes /work is answered with 400,
\* and no hypervisor is spawned for it.
C7_UnsafeNameRejected ==
  \A r \in Reqs :
    (\E name \in DOMAIN req[r].Files : UnsafeName(name)) =>
      /\ ~hist[r].spawned
      /\ nresp[r] > 0 => resp[r].status = 400

\* C8 (validation short-circuit): a request answered with 400 acquired no
\* resource and changed no state before the rejection: no temporary mount
\* directory, no loop mount, no per-execution directory, agent image or
\* listener, no file written into the image.
C8_RejectedBeforeAcquisition ==
  \A r \in Reqs :
    (nresp[r] > 0 /\ resp[r].status = 400) =>
      hist[r].acquired = {} /\ hist[r].writes = {}

\* C9 (configuration protocol order): the control calls of a request are
\* issued in the order machine-config, boot-source, root drive, (agent
\* drive), InstanceStart; each only after the one before returned 204; none
\* before waitForSocket has seen the control socket.
C9_ProtocolOrder ==
  \A r \in Reqs :
    LET c == hist[r].calls
    IN  /\ Len(c) <= Len(ControlCalls)
        /\ \A i \in 1..Len(c) :
             /\ c[i].path = ControlCalls[i]
             /\ i < Len(c) => c[i].outcome = "204"
        /\ Len(c) > 0 => hist[r].sockSeen

\* C9 witness: all the calls of the agent variant were issued and answered 204
C9_Witness ==
  \E r \in Reqs :
    /\ variant = "agent"
    /\ Len(hist[r].calls) = Len(ControlCalls)
    /\ \A i \in 1..Len(hist[r].calls) : hist[r].calls[i].outcome = "204"

\* waitForSocket of request r timed out
SocketTimedOut(r) ==
  hist[r].spawned /\ ~hist[r].sockSeen /\ h[r].pc \in {"unwind", "returned"}

\* a control call of request r came back with a non-204 status or an IO error
CallFailed(r) ==
  \E i \in 1..Len(hist[r].calls) : hist[r].calls[i].outcome # "204"

\* C10 (configuration failure): when waitForSocket times out or a control
\* call returns a non-204 status or an IO error, the request ends with 500,
\* no later control call is issued (InstanceStart in particular), and the
\* child is killed and reaped before the handler returns.
C10_ConfigFailure ==
  \A r \in Reqs :
    (SocketTimedOut(r) \/ CallFailed(r)) =>
      /\ nresp[r] = 1 /\ resp[r].status = 500
      /\ SocketTimedOut(r) => hist[r].calls = <<>>
      /\ \A i \in 1..Len(hist[r].calls) :
           hist[r].calls[i].outcome # "204" => i = Len(hist[r].calls)
      /\ vm[r].guest = "off"
      /\ h[r].pc = "returned" => vm[r].proc = "reaped"

\* C10 witness: the root drive call failed and the handler has returned
C10_Witness ==
  \E r \in Reqs :
    /\ h[r].pc = "returned"
    /\ Len(hist[r].calls) = 3
    /\ hist[r].calls[3].outcome # "204"
    /\ resp[r].status = 500

\* the boot wait of request r ended without init-started being observed
BootWaitFailed(r) ==
  /\ variant = "console"
  /\ h[r].pc \in {"unwind", "returned"}
  /\ Len(hist[r].calls) = Len(ControlCalls)
  /\ hist[r].calls[Len(ControlCalls)].outcome = "204"
  /\ hist[r].sinceInit < 0

\* C11 (boot grace): in the console variant the execution timer and the
\* deadline of the completion wait are started only after
\* waitForGuestInitStarted succeeded, so what is left of either, added to the
\* time since init-started was observed, is never less than timeout_ms; when
\* the boot wait fails the response is 200 with stdout "", stderr beginning
\* with "boot timeout: " and exit_code 124, and neither the goroutine nor
\* the timer was started.
C11_BootGrace ==
  \A r \in Reqs :
    variant = "console" =>
      /\ (h[r].gpc # "none" \/ h[r].timer >= 0) => hist[r].sinceInit >= 0
      /\ (InFlight(r) /\ h[r].timer > 0) =>
           h[r].timer + hist[r].sinceInit >= EffectiveTimeout(req[r].TimeoutMs)
      /\ (InFlight(r) /\ h[r].gpc \in {"loop", "sleep"} /\ h[r].gDeadline > 0) =>
           h[r].gDeadline + hist[r].sinceInit >= EffectiveTimeout(req[r].TimeoutMs)
      /\ BootWaitFailed(r) =>
           /\ nresp[r] = 1
           /\ resp[r].status = 200
           /\ resp[r].Stdout = <<>>
           /\ resp[r].Stderr[1] = "boot timeout: "
           /\ resp[r].ExitCode = 124
           /\ h[r].gpc = "none"
           /\ h[r].timer = -1

\* C11 witness: the boot wait ran out its 5 s and the handler has returned
C11_Witness ==
  \E r \in Reqs :
    /\ BootWaitFailed(r)
    /\ h[r].pc = "returned"
    /\ resp[r].Stderr = <<"boot timeout: ", "timeout waiting for guest init started">>

\* staging of request r began (the rootfs was mounted) and did not complete
StagingFailed(r) ==
  /\ "rootMount" \in hist[r].acquired
  /\ ~hist[r].staged
  /\ h[r].pc \in {"unwind", "returned"}

\* C12 (spawn precondition): the hypervisor is spawned only after every file
\* was staged without error and the final unmount of the rootfs succeeded;
\* a staging failure (validation, write, chmod) attempts the unmount before
\* responding, and a staging or unmount failure ends the request, with 400
\* for validation and 500 otherwise, and no hypervisor.
C12_SpawnPrecondition ==
  \A r \in Reqs :
    /\ hist[r].spawned =>
         /\ hist[r].staged
         /\ r \notin fs.rootMounts
         /\ \A name \in DOMAIN req[r].Files :
              /\ resolveWorkPath(workDir, name).err = ""
              /\ resolveWorkPath(workDir, name).path \in hist[r].writes
    /\ StagingFailed(r) =>
         /\ hist[r].umountTried
         /\ ~hist[r].spawned
         /\ nresp[r] = 1
         /\ \/ resp[r].status = 500
            \/ /\ resp[r].status = 400
               /\ \E name \in DOMAIN req[r].Files :
                    resolveWorkPath(workDir, name).err = resp[r].body

\* C12 witness: a child was spawned for a request with two staged files
C12_Witness ==
  \E r \in Reqs :
    /\ hist[r].spawned
    /\ Cardinality(DOMAIN req[r].Files) = 2
    /\ Cardinality(hist[r].writes) = 2

\* C13 (channel isolation, console variant): on every 200 response the
\* stdout consists only of console lines that begin with "[guest]"; no
\* kernel or hypervisor line of the console is part of it.
C13_StdoutOnlyGuestLines ==
  \A r \in Reqs :
    (variant = "console" /\ nresp[r] > 0 /\ resp[r].status = 200) =>
      \A i \in 1..Len(resp[r].Stdout) :
        /\ HasPrefix(resp[r].Stdout[i], <<"[guest]">>)
        /\ resp[r].Stdout[i] \notin {LineHalted, LinePanic}

\* request r was answered from a completion the waiter reported without error
CompletionResponse(r) ==
  /\ variant = "console"
  /\ nresp[r] > 0
  /\ resp[r].status = 200
  /\ resp[r].Stderr = <<>>
  /\ hist[r].sinceInit >= 0

\* C14 (reliable exit code, console variant): the exit_code of a completion
\* response is the code init reported for the command, whatever the command
\* itself printed, lines beginning with "[guest] exit code:" included.
C14_ReliableExitCode ==
  \A r \in Reqs :
    (CompletionResponse(r) /\ hist[r].exitAt >= 0) => resp[r].ExitCode = vm[r].code

\* the console holds one of the early termination markers
EarlyMarker ==
  /\ ConsoleReadable
  /\ TextContains(ConsoleText, LinePanic) \/ TextContains(ConsoleText, LineHalted)

\* C15 (early termination, console variant): when the console holds
\* "Kernel panic" or "reboot: System halted", the waiter in progress, boot
\* wait or completion wait, returns at its next poll: no poll that finds
\* such a marker ends in the sleep.
C15_EarlyTermination ==
  [][\A r \in Reqs :
       (/\ variant = "console"
        /\ EarlyMarker
        /\ h[r].deadline > 0 \/ h[r].gDeadline > 0) =>
         /\ ~(h[r].pc = "bootwait" /\ h'[r].pc = "bootsleep")
         /\ ~(h[r].gpc = "loop" /\ h'[r].gpc = "sleep")]_vars

\* the lines of text that read "[guest] exit code: <n>"
ExitLines(text) == {i \in 1..Len(text) : \E n \in ExitCodes : text[i] = LineExit(n)}

\* code is what the completion decision gives for text: the n of the first
\* exit-code line, or 0 when there is none and the guest has halted
Decided(text, code) ==
  /\ ExitLines(text) # {} =>
       \E i \in ExitLines(text) :
         /\ \A j \in ExitLines(text) : i <= j
         /\ text[i] = LineExit(code)
  /\ ExitLines(text) = {} => (TextContains(text, LineHalted) /\ code = 0)

DecodedInTime(r) ==
  /\ hist[r].decodedAt >= 0
  /\ hist[r].decodedAt < EffectiveTimeout(req[r].TimeoutMs) + BootGrace

\* C17 (agent variant result): the host accepts at most one connection and
\* decodes at most one record; once the start action has succeeded the request
\* gets one response, HTTP 200: the decoded record verbatim when a record was
\* decoded within timeout_ms + 5 s of the start action, and stdout "",
\* stderr "execution timed out", exit_code 124 in every other case.
C17_AgentResult ==
  \A r \in Reqs :
    variant = "agent" =>
      /\ hist[r].accepts <= 1
      /\ hist[r].decodes <= 1
      /\ (hist[r].sinceStart >= 0 /\ nresp[r] > 0) =>
           /\ nresp[r] = 1
           /\ resp[r] = IF DecodedInTime(r)
                          THEN JsonResponse(vm[r].msg[1].Stdout, vm[r].msg[1].Stderr,
                                            vm[r].msg[1].ExitCode)
                        ELSE JsonResponse(<<>>, TimeoutStderr, 124)

\* C17 witness: a record decoded before the deadline has been returned
C17_Witness ==
  \E r \in Reqs :
    /\ variant = "agent"
    /\ nresp[r] = 1
    /\ DecodedInTime(r)
    /\ hist[r].decodedAt > 0
    /\ resp[r].ExitCode = 7

\* the agent drive has been attached to the child of r
AgentAttached(r) ==
  \E i \in 1..Len(hist[r].calls) :
    hist[r].calls[i].path = "/drives/agent" /\ hist[r].calls[i].outcome = "204"

\* C18 (agent drive ordering): when the agent image is about to be unmounted
\* it is mounted and holds the listener's socket file; once the hypervisor is
\* spawned, and once /drives/agent is sent, the image has been unmounted with
\* success and the listener on that socket is the one the handler holds; the
\* image is not mounted while the attached child is alive.
C18_AgentDriveOrdering ==
  \A r \in Reqs :
    variant = "agent" =>
      /\ h[r].pc = "umountagent" =>
           /\ r \in fs.agentMounts
           /\ <<r, "mount">> \in fs.agentSocks
           /\ h[r].lnAt = "mount"
      /\ hist[r].spawned => r \notin fs.agentMounts
      /\ (hist[r].spawned /\ h[r].pc \notin {"unwind", "returned"}) => h[r].lnAt = "mount"
      /\ (\E i \in 1..Len(hist[r].calls) : hist[r].calls[i].path = "/drives/agent") =>
           /\ hist[r].spawned
           /\ r \notin fs.agentMounts
      /\ (AgentAttached(r) /\ vm[r].proc \in {"running", "zombie"}) => r \notin fs.agentMounts

\* C18 witness: the agent drive is attached to a running child
C18_Witness ==
  \E r \in Reqs :
    /\ variant = "agent"
    /\ AgentAttached(r)
    /\ vm[r].proc = "running"
    /\ r \in fs.agentImgs

\* the fixed paths of the hypervisor's control socket, console file and log;
\* a path is a sequence of its parts
fcSocket == <<"/tmp/fc.sock">>
fcConsole == <<"/tmp/guest-console.log">>
fcLog == <<"/tmp/firecracker/firecracker.log">>

\* the host paths request r has created or handed to its hypervisor so far:
\* os.MkdirTemp and uuid.NewString give each request a name of its own (r)
ArtifactPaths(r) ==
  (IF "mountDir" \in hist[r].acquired THEN {<<"rootfs-mount-", r>>} ELSE {})
    \cup (IF "agentImg" \in hist[r].acquired THEN {<<"sandboxd", r, "agent.img">>} ELSE {})
    \cup (IF h[r].lnAt = "exec" THEN {<<"sandboxd", r, "agent.sock">>} ELSE {})
    \cup (IF h[r].lnAt = "mount" THEN {<<"sandboxd", r, "mnt", "agent.sock">>} ELSE {})
    \cup (IF hist[r].spawned
            THEN {fcSocket, fcLog} \cup (IF variant = "console" THEN {fcConsole} ELSE {})
          ELSE {})

\* C19 (per-execution namespacing): two requests in flight at once share no
\* artifact path: mount directory, control socket, console file, log file,
\* agent image and agent socket are pairwise distinct.
C19_PerExecutionPaths ==
  \A r, q \in Reqs :
    (r # q /\ InFlight(r) /\ InFlight(q)) => ArtifactPaths(r) \cap ArtifactPaths(q) = {}

\* C20 (socket unlinking): when a request that spawned the hypervisor has
\* returned, by whatever exit path, the control-socket file its child bound
\* is gone from the host, and so is the agent socket file (agent variant).
C20_SocketsUnlinked ==
  \A r \in Reqs :
    (h[r].pc = "returned" /\ hist[r].spawned) =>
      /\ fs.fcSock # r
      /\ \A at \in {"exec", "mount"} : <<r, at>> \notin fs.agentSocks

\* the place of the deferred call d in the cleanup of r, 0 when it has not run
RanAt(r, d) ==
  IF \E i \in 1..Len(hist[r].cleanup) : hist[r].cleanup[i] = d
    THEN CHOOSE i \in 1..Len(hist[r].cleanup) : hist[r].cleanup[i] = d
  ELSE 0

\* the cleanup steps that must come after the kill and wait of the child
AfterKill == IF variant = "agent" THEN {"removeMountDir", "agentCleanup", "removeExecDir"}
             ELSE {"removeMountDir"}

\* C21 (cleanup order): on every exit path after the spawn, the kill and wait
\* of the child run before the removal of the mount directory and before the
\* unmount and removal of the agent image and the per-execution directory;
\* when the handler has returned every one of these steps has run, whatever
\* the outcome of the steps before it.
C21_CleanupOrder ==
  \A r \in Reqs :
    hist[r].spawned =>
      /\ \A d \in AfterKill :
           RanAt(r, d) > 0 => (RanAt(r, "killWait") > 0 /\ RanAt(r, "killWait") < RanAt(r, d))
      /\ h[r].pc = "returned" =>
           /\ vm[r].proc = "reaped"
           /\ \A d \in AfterKill \cup {"killWait"} : RanAt(r, d) > 0

\* C21 witness: an agent-variant request that spawned its child has returned
\* from a failed control call, its cleanup done
C21_Witness ==
  \E r \in Reqs :
    /\ variant = "agent"
    /\ hist[r].spawned
    /\ h[r].pc = "returned"
    /\ nresp[r] = 1 /\ resp[r].status = 500
    /\ RanAt(r, "removeExecDir") > RanAt(r, "agentCleanup")

\* the timeout sentinel: stdout "", stderr "execution timed out", exit code 124
TimeoutSentinel == JsonResponse(<<>>, TimeoutStderr, 124)

\* C22 (bounded response): on the clock that starts when the request arrives
\* and counts the time spent in waitForSocket and the waits after it, a
\* request answered with the timeout sentinel has returned within
\* timeout_ms + boot grace + cleanup budget.
C22_BoundedResponse ==
  \A r \in Reqs :
    (/\ h[r].pc = "returned"
     /\ hist[r].sinceArrival >= 0
     /\ nresp[r] > 0 /\ resp[r] = TimeoutSentinel) =>
      hist[r].sinceArrival <= EffectiveTimeout(req[r].TimeoutMs) + BootGrace + CleanupBudget

\* every blocking point of request r has its countdown armed
BlockingBounded(r) ==
  /\ h[r].pc \in {"waitsock", "socksleep"} => h[r].deadline \in 0..SocketTimeout
  /\ h[r].pc \in {"bootwait", "bootsleep"} => h[r].deadline \in 0..BootGrace
  /\ h[r].pc \in {"socksleep", "bootsleep"} => h[r].wake \in 0..ConsolePoll
  /\ h[r].pc = "select" => h[r].timer \in 0..EffectiveTimeout(req[r].TimeoutMs)
  /\ h[r].pc = "agentselect" => h[r].timer \in 0..(EffectiveTimeout(req[r].TimeoutMs) + BootGrace)
  /\ h[r].gpc \in {"loop", "sleep"} => h[r].gDeadline \in 0..EffectiveTimeout(req[r].TimeoutMs)
  /\ h[r].gpc = "sleep" => h[r].gWake \in 0..ConsolePoll

InputStatus(r) ==
  IF req[r].method # "POST" THEN 405
  ELSE IF ~req[r].jsonOk THEN 400
  ELSE IF req[r].Cmd = "" THEN 400
  ELSE 0

\* C24 (input rejection): a request that is not a POST is answered 405, a
\* POST with an undecodable body 400, a POST with an empty or missing cmd
\* 400; such a request goes from the checks straight to its return: it
\* creates no directory, runs no mount, writes nothing and spawns nothing.
C24_InputRejection ==
  \A r \in Reqs :
    (h[r].pc # "idle" /\ InputStatus(r) # 0) =>
      /\ h[r].pc \in {"decode", "unwind", "returned"}
      /\ h[r].pc # "decode" => (nresp[r] = 1 /\ resp[r].status = InputStatus(r))
      /\ h[r].defers = <<>>
      /\ hist[r].acquired = {} /\ hist[r].writes = {} /\ ~hist[r].spawned
      /\ fs = FsInit /\ image = ImageInit

\* C24 witness: a GET has been answered 405 and the handler has returned
C24_Witness ==
  \E r \in Reqs :
    /\ h[r].pc = "returned"
    /\ req[r].method = "GET"
    /\ resp[r].status = 405

\* the deadline the claim gives a request with this timeout_ms
ClaimedDeadline(t) == IF t > 0 THEN t ELSE DefaultTimeout

\* C25 (default deadline): the timer of the console variant, the deadline of
\* its completion wait and the timeout of the agent wait (plus the boot
\* allowance) are armed with timeout_ms when it is positive and with the
\* default when it is missing, zero or negative.
C25_DefaultDeadline ==
  [][\A r \in Reqs :
       /\ (h[r].pc = "newtimer" /\ h'[r].pc = "select") =>
            h'[r].timer = ClaimedDeadline(req[r].TimeoutMs)
       /\ (h[r].gpc = "start" /\ h'[r].gpc = "loop") =>
            h'[r].gDeadline = ClaimedDeadline(req[r].TimeoutMs)
       /\ (h[r].pc = "agentwait" /\ h'[r].pc = "agentselect") =>
            h'[r].timer = ClaimedDeadline(req[r].TimeoutMs) + BootGrace]_vars

\* C25 witness: a request with a negative timeout_ms waits under the default
C25_Witness ==
  \E r \in Reqs :
    /\ req[r].TimeoutMs < 0
    /\ h[r].pc \in {"select", "agentselect"}
    /\ h[r].timer > 0

\* the boot-source calls the child of q has accepted
BootSources(q) == {i \in 1..Len(vm[q].cfg) : vm[q].cfg[i].path = "/boot-source"}

\* C26 (working directory): the command a hypervisor was given in its boot
\* arguments is "cd /work && " followed by the cmd of the request that sent
\* it when that request has files, and the cmd alone when it has none.
C26_WorkingDirectory ==
  \A q \in Reqs : \A i \in BootSources(q) :
    LET r == vm[q].cfg[i].from
    IN  vm[q].cfg[i].cmd = IF req[r].Files = EmptyFn THEN <<req[r].Cmd>>
                           ELSE <<"cd /work && ", req[r].Cmd>>

\* C26 witness: a request with files has configured its boot source
C26_Witness ==
  \E q \in Reqs : \E i \in BootSources(q) :
    /\ req[vm[q].cfg[i].from].Files # EmptyFn
    /\ Len(vm[q].cfg[i].cmd) = 2

\* the guest of q has ended: powered off, or dead with its init
GuestEnded(q) == vm[q].guest \in {"halted", "panic"}

\* C27 (documented guest protocol, agent variant): with the init script of
\* the guest-agent README and the guest agent, a command that ended with any
\* code n has its code recorded and the agent run, and when the guest has
\* ended the agent has sent one record whose exit_code is n.
C27_GuestProtocol ==
  \A q \in Reqs :
    (variant = "agent" /\ vm[q].guest \in {"exited", "halted", "panic"}) =>
      /\ vm[q].agentRuns
      /\ GuestEnded(q) =>
           /\ Len(vm[q].msg) = 1
           /\ vm[q].msg[1].ExitCode = vm[q].code

\* C28 (exactly one response): no request is answered twice, whatever the
\* interleaving of the completion goroutine and the timer; a handler that has
\* written its response is on its way out; a handler that has returned has
\* written exactly one response, a status and a body.
C28_ExactlyOneResponse ==
  \A r \in Reqs :
    /\ nresp[r] <= 1
    /\ (InFlight(r) /\ nresp[r] = 1) => h[r].pc = "unwind"
    /\ h[r].pc = "unwind" => nresp[r] = 1
    /\ (h[r].pc = "returned" /\ req[r] # NoReq) =>
         /\ nresp[r] = 1
         /\ resp[r].status \in {200, 400, 405, 500}

\* C28 witness: a request answered by the timeout branch, its goroutine
\* finished as well, has returned with its one response
C28_Witness ==
  \E r \in Reqs :
    /\ h[r].pc = "returned"
    /\ h[r].gpc = "closed"
    /\ resp[r] = TimeoutSentinel
    /\ nresp[r] = 1

\* C29 (isolation of concurrent requests): with two requests in flight at
\* once, every control call of a request that was answered was answered by
\* the child this request spawned; the stdout of its response is console
\* output of its own VM (console variant), and a record it returns is the
\* record of its own VM's agent (agent variant).
C29_Isolation ==
  \A r \in Reqs :
    /\ \A i \in 1..Len(hist[r].calls) :
         hist[r].calls[i].outcome # "ioErr" => hist[r].calls[i].to = r
    /\ (nresp[r] > 0 /\ resp[r].status = 200) =>
         IF variant = "console"
           THEN HasPrefix(vm[r].console, resp[r].Stdout)
         ELSE resp[r] # TimeoutSentinel =>
                /\ vm[r].msg # <<>>
                /\ resp[r].ExitCode = vm[r].msg[1].ExitCode

\* request r sees the control socket in this step
SeesSocket(r) == WaitForSocket(r) /\ h'[r].pc = "put"

\* request r reads the console file in this step
ReadsConsole(r) ==
  \/ WaitForGuestInitStarted(r) /\ h[r].deadline # 0
  \/ PollerLoop(r) /\ h[r].gDeadline # 0

\* C30 (freshness across sequential requests): in every step in which a
\* request sees the control socket, the socket was bound by the child
\* spawned for this request; in every step in which its boot wait or its
\* completion wait reads the console, the file is the one created for this
\* request and its text is what this request's guest has printed.
C30_Freshness ==
  [][\A r \in Reqs :
       /\ SeesSocket(r) => (fs.fcSock = r /\ vm[r].bound /\ hist[r].spawned)
       /\ ReadsConsole(r) => (fs.consoleAt = r /\ ConsoleText = vm[r].console)]_vars

\* the second request of a sequence has seen its socket and found its
\* guest's init marker after the first one left its socket behind
C30_Witness ==
  /\ budget = 0
  /\ variant = "console"
  /\ h[2].pc = "select"
  /\ hist[2].sockSeen
  /\ hist[2].sinceInit >= 0
  /\ h[1].pc = "returned"

\* the deferred call that request r runs next
NextDeferred(r) ==
  IF h[r].pc = "unwind" /\ h[r].defers # <<>>
    THEN h[r].defers[Len(h[r].defers)] ELSE "none"

\* C31 (removal only when unmounted): in every state in which the deferred
\* recursive removal of the temporary mount directory of a request is the
\* call that runs next, the rootfs image is not mounted at that directory,
\* also on the exit paths where an unmount attempt failed.
C31_RemovalOnlyWhenUnmounted ==
  \A r \in Reqs : NextDeferred(r) = "removeMountDir" => r \notin fs.rootMounts

\* the mode the file of content c is to have after stage B
StagedMode(c) == IF HasPrefix(c, Shebang) THEN 755 ELSE 644

\* C32 (file modes across requests): after stage B of a request, whatever
\* earlier requests staged under the same names, each file named in the
\* request is in the image with mode 0755 if its content begins with the
\* shebang marker and with mode 0644 otherwise.
C32_FileModes ==
  \A r \in Reqs :
    (InFlight(r) /\ hist[r].staged) =>
      \A name \in DOMAIN req[r].Files :
        LET path == resolveWorkPath(workDir, name).path
        IN  /\ path \in DOMAIN image.files
            /\ image.files[path].mode = StagedMode(req[r].Files[name])

====
